---- MODULE Spec2Model ----
(***************************************************************************)
(* Model of pandas_profiling/serialize_report.py: SerializeReport, the     *)
(* mixin that dumps a ProfileReport to bytes / a ".pp" file and loads such *)
(* bytes back into a report object.                                        *)
(*                                                                         *)
(* A Python value is a record [type, val]: type is the value's class, val  *)
(* tells values of one class apart.  Bytes are sequences of such records   *)
(* and of pickle opcodes.                                                  *)
(***************************************************************************)
EXTENDS Naturals, Sequences, FiniteSets

VARIABLES
    df_hash,            \* self.df_hash
    df,                 \* self.df
    _df_hash,           \* self._df_hash
    _report,            \* self._report
    _description_set,   \* self._description_set
    _title,             \* self._title
    config,             \* the process-wide pandas_profiling.config.config
    fs,                 \* the file system: file name -> bytes, NoFile when absent
    op,                 \* the last call: "new", "fresh", "dumps", "loads", "dump", "load"
    arg_data,           \* loads: its data argument; load: the bytes it read
    arg_ignore,         \* loads / load: its ignore_config argument
    arg_path,           \* dump / load: its path argument
    ret,                \* dumps: the bytes it returned
    raised,             \* the exception the last call raised, NoException if it returned
    warned,             \* the warnings the last call emitted
    updates,            \* the number of config.update calls the last call made
    pre,                \* the report and the config as they were before the last call
    saved,              \* the five values of the source report of a round trip,
                        \* and after a dump the path it was given
    calls               \* the number of loads / dump / load calls made

vars == <<df_hash, df, _df_hash, _report, _description_set, _title, config, fs,
          op, arg_data, arg_ignore, arg_path, ret, raised, warned, updates, pre, saved,
          calls>>

(***************************************************************************)
(* Bounds.                                                                 *)
(***************************************************************************)
MaxCalls == 2

MaxNameLen == 3

(***************************************************************************)
(* Python values.  A str holds its characters, a list and a tuple hold     *)
(* their items.                                                            *)
(***************************************************************************)
None == [type |-> "NoneType", val |-> "None"]

Str(s) == [type |-> "str", val |-> s]

Int(s) == [type |-> "int", val |-> s]

List(s) == [type |-> "list", val |-> s]

Tuple(s) == [type |-> "tuple", val |-> s]

ConfigObj(s) == [type |-> "Config", val |-> s]

Dict(s) == [type |-> "dict", val |-> s]

RootObj(s) == [type |-> "Root", val |-> s]

DataFrame(s) == [type |-> "DataFrame", val |-> s]

\* A function or bound method that a pickle names.
Callable(s) == [type |-> "builtin_function_or_method", val |-> s]

isinstance(x, t) == x.type = t

\* The version of the running library, pandas_profiling.version.__version__.
__version__ == "2.9.0"

\* A description set whose ["package"]["pandas_profiling_version"] is v.
DescriptionSet(v) == Dict(v)

\* The dict {}: a mapping with no "package" key.
EmptyDict == Dict("{}")

\* d["package"]["pandas_profiling_version"]: defined when d has the keys.
HasVersionMarker(d) == isinstance(d, "dict") /\ d # EmptyDict

VersionMarker(d) == d.val

\* The values an unpacking of x yields: the items of a list or tuple, the
\* characters of a str, the keys of a dict; ok is FALSE when x is not
\* iterable.
iter(x) ==
    IF x.type \in {"list", "tuple"}
    THEN [ok |-> TRUE, items |-> x.val]
    ELSE IF x.type = "str"
    THEN [ok |-> TRUE, items |-> [i \in 1..Len(x.val) |-> Str(<<x.val[i]>>)]]
    ELSE IF x.type = "dict"
    THEN [ok |-> TRUE,
          items |-> IF x = EmptyDict
                    THEN <<>>
                    ELSE <<Str(<<"p", "a", "c", "k", "a", "g", "e">>)>>]
    ELSE [ok |-> FALSE, items |-> <<>>]

(***************************************************************************)
(* The Config capability (pandas_profiling.config): is_default and update. *)
(***************************************************************************)
DefaultConfig == ConfigObj("default")

CustomConfig == ConfigObj("custom")

is_default(c) == c = DefaultConfig

\* config.update(other): the active config takes the other's settings.
update(c, other) == other

(***************************************************************************)
(* Exceptions and warnings.                                                *)
(***************************************************************************)
NoException == "none"

\* An exception of the codec or of the unpacking, of class Exception.
CodecError == "Exception"

\* SystemExit derives from BaseException, not from Exception.
SystemExit == "SystemExit"

DeserializationError == "ValueError: Failed to load data: <cause>"

IncompatibleFormatError ==
    "ValueError: Failed to load data: file may be damaged or from an incompatible version"

DatasetMismatchError == "ValueError: DataFrame does not match with the current ProfileReport."

KeyErrorPackage == "KeyError: 'package'"

DescriptionSetWarning ==
    "The description set of current ProfileReport is not None. It won't be loaded."

ReportWarning == "The report of current ProfileReport is not None. It won't be loaded."

VersionWarning ==
    "The package version specified in the loaded data is not equal to the version installed."

(***************************************************************************)
(* The codec (dill).  Bytes are a pickle program: a sequence of values,    *)
(* each standing for the opcodes that push it, and of the opcodes PROTO,   *)
(* MARK, LIST, TUPLE, EMPTY_TUPLE, TUPLE1, GLOBAL, REDUCE and STOP.  The   *)
(* decoder runs the program on a stack, from the first opcode to the first *)
(* STOP; REDUCE calls the callable a GLOBAL named.                         *)
(***************************************************************************)
Opcode(s) == [type |-> "opcode", val |-> s]

\* The encoding of a list.
pickle_dumps(lst) ==
    <<Opcode("PROTO"), Opcode("MARK")>> \o lst \o <<Opcode("LIST"), Opcode("STOP")>>

\* The encoding of one object that is no list.
pickle_dumps_object(x) == <<Opcode("PROTO"), x, Opcode("STOP")>>

\* The end of the decoding: the exception class or NoException, the object
\* decoded, the active config and the number of config.update calls made.
Unpickled(e, x, cfg, n) == [raised |-> e, value |-> x, config |-> cfg, updates |-> n]

\* The positions of the marks on the stack.
Marks(stack) == {k \in 1..Len(stack) : stack[k] = Opcode("MARK")}

\* REDUCE: f(*args).  sys.exit raises SystemExit; config.update(other)
\* updates the active config and returns None; anything else that is called
\* raises.
reduce(f, args, cfg, n) ==
    IF ~isinstance(args, "tuple") \/ ~isinstance(f, "builtin_function_or_method")
    THEN Unpickled(CodecError, None, cfg, n)
    ELSE IF f = Callable("sys.exit") /\ Len(args.val) <= 1
    THEN Unpickled(SystemExit, None, cfg, n)
    ELSE IF f = Callable("config.update") /\ Len(args.val) = 1
                                         /\ isinstance(args.val[1], "Config")
    THEN Unpickled(NoException, None, update(cfg, args.val[1]), n + 1)
    ELSE Unpickled(CodecError, None, cfg, n)

RECURSIVE unpickle(_, _, _, _, _)
\* The decoder at opcode i of data, with its stack, the active config and
\* the number of config.update calls made so far.
unpickle(data, i, stack, cfg, n) ==
    IF i > Len(data)
    THEN Unpickled(CodecError, None, cfg, n)
    ELSE
        LET o == data[i]
            top == Len(stack)
            mark == CHOOSE k \in Marks(stack) : \A j \in Marks(stack) : j <= k
            push(x) == unpickle(data, i + 1, Append(stack, x), cfg, n)
            fail == Unpickled(CodecError, None, cfg, n)
        IN  IF o.type # "opcode" THEN push(o)
            ELSE IF o.val = "PROTO" THEN unpickle(data, i + 1, stack, cfg, n)
            ELSE IF o.val = "MARK" THEN push(o)
            ELSE IF o.val \in {"LIST", "TUPLE"} THEN
                IF Marks(stack) = {} THEN fail
                ELSE unpickle(data, i + 1,
                              Append(SubSeq(stack, 1, mark - 1),
                                     [type |-> IF o.val = "LIST" THEN "list" ELSE "tuple",
                                      val |-> SubSeq(stack, mark + 1, top)]),
                              cfg, n)
            ELSE IF o.val = "EMPTY_TUPLE" THEN push(Tuple(<<>>))
            ELSE IF o.val = "TUPLE1" THEN
                IF top = 0 \/ top \in Marks(stack) THEN fail
                ELSE unpickle(data, i + 1,
                              Append(SubSeq(stack, 1, top - 1), Tuple(<<stack[top]>>)),
                              cfg, n)
            ELSE IF o.val = "GLOBAL sys exit" THEN push(Callable("sys.exit"))
            ELSE IF o.val = "GLOBAL config update" THEN push(Callable("config.update"))
            ELSE IF o.val = "REDUCE" THEN
                IF top < 2 \/ top \in Marks(stack) \/ (top - 1) \in Marks(stack) THEN fail
                ELSE LET r == reduce(stack[top - 1], stack[top], cfg, n)
                     IN  IF r.raised # NoException THEN r
                         ELSE unpickle(data, i + 1,
                                       Append(SubSeq(stack, 1, top - 2), r.value),
                                       r.config, r.updates)
            ELSE IF o.val = "STOP" THEN
                IF top = 0 \/ top \in Marks(stack) THEN fail
                ELSE Unpickled(NoException, stack[top], cfg, n)
            ELSE fail

\* pickle.loads(data) under the active config cfg.
pickle_loads(cfg, data) == unpickle(data, 1, <<>>, cfg, 0)

\* Bytes left in a file by an earlier program: they do not decode.
StaleBytes == <<Opcode("garbage")>>

\* The file system with no file.
NoFiles == [n \in {} |-> StaleBytes]

(***************************************************************************)
(* The report object and the outcome of a call.                            *)
(***************************************************************************)
Self == [df_hash |-> df_hash, df |-> df, _df_hash |-> _df_hash, _report |-> _report,
         _description_set |-> _description_set, _title |-> _title]

\* The class attributes: the fields of an object right after construction.
ClassDefaults == [df_hash |-> None, df |-> None, _df_hash |-> None, _report |-> None,
                  _description_set |-> None, _title |-> None]

(***************************************************************************)
(* dumps.                                                                  *)
(***************************************************************************)
\* Mutant: the private _df_hash is serialized in place of df_hash.
Snapshot_PrivateHash(s, cfg) ==
    <<s._df_hash, cfg, s._description_set, s._report, s._title>>

\* The list dumps hands to the codec.
Snapshot(s, cfg) == <<s.df_hash, cfg, s._description_set, s._report, s._title>>

dumps(s, cfg) == pickle_dumps(Snapshot(s, cfg))

(***************************************************************************)
(* loads.                                                                  *)
(***************************************************************************)
\* The try block: decode and unpack into five names.  An exception of class
\* Exception is caught and raised again as the ValueError; SystemExit is
\* not caught.  What the decoding did to the config stays done.
Unpack5(cfg, data) ==
    LET r == pickle_loads(cfg, data)
        it == iter(r.value)
    IN  IF r.raised = SystemExit
        THEN [raised |-> SystemExit, v |-> <<>>, config |-> r.config,
              updates |-> r.updates]
        ELSE IF r.raised # NoException \/ ~it.ok \/ Len(it.items) # 5
        THEN [raised |-> DeserializationError, v |-> <<>>, config |-> r.config,
              updates |-> r.updates]
        ELSE [raised |-> NoException, v |-> it.items, config |-> r.config,
              updates |-> r.updates]

\* The all(...) over the five shapes.
ShapeOK(v) ==
    /\ (v[1] = None \/ isinstance(v[1], "str"))
    /\ (v[5] = None \/ isinstance(v[5], "str"))
    /\ isinstance(v[2], "Config")
    /\ (v[3] = None \/ isinstance(v[3], "dict"))
    /\ (v[4] = None \/ isinstance(v[4], "Root"))

\* Mutant: only an equal hash is compatible.
Compatible_HashOnly(loaded_hash, s, cfg) == loaded_hash = s.df_hash

\* (df_hash == self.df_hash) or (config.is_default and self.df is None)
Compatible(loaded_hash, s, cfg) ==
    \/ loaded_hash = s.df_hash
    \/ (is_default(cfg) /\ s.df = None)

\* Mutant: a loaded description set replaces the one already there.
MergeDescriptionSet_Overwrite(s, loaded_description_set) ==
    [self |-> [s EXCEPT !._description_set = loaded_description_set],
     warned |-> IF s._description_set = None THEN {} ELSE {DescriptionSetWarning}]

MergeDescriptionSet(s, loaded_description_set) ==
    IF s._description_set = None
    THEN [self |-> [s EXCEPT !._description_set = loaded_description_set], warned |-> {}]
    ELSE [self |-> s, warned |-> {DescriptionSetWarning}]

\* Mutant: a loaded report replaces the one already there.
MergeReport_Overwrite(s, loaded_report) ==
    [self |-> [s EXCEPT !._report = loaded_report],
     warned |-> IF s._report = None THEN {} ELSE {ReportWarning}]

MergeReport(s, loaded_report) ==
    IF s._report = None
    THEN [self |-> [s EXCEPT !._report = loaded_report], warned |-> {}]
    ELSE [self |-> s, warned |-> {ReportWarning}]

\* Mutant: the comparison is == in place of !=.
VersionCheck_WarnsOnEqual(loaded_description_set) ==
    IF loaded_description_set = None
    THEN [raised |-> NoException, warned |-> {}]
    ELSE IF ~HasVersionMarker(loaded_description_set)
    THEN [raised |-> KeyErrorPackage, warned |-> {}]
    ELSE IF VersionMarker(loaded_description_set) = __version__
    THEN [raised |-> NoException, warned |-> {VersionWarning}]
    ELSE [raised |-> NoException, warned |-> {}]

\* The version comparison: the subscripts raise KeyError on a dict without
\* the "package" key.
VersionCheck(loaded_description_set) ==
    IF loaded_description_set = None
    THEN [raised |-> NoException, warned |-> {}]
    ELSE IF ~HasVersionMarker(loaded_description_set)
    THEN [raised |-> KeyErrorPackage, warned |-> {}]
    ELSE IF VersionMarker(loaded_description_set) # __version__
    THEN [raised |-> NoException, warned |-> {VersionWarning}]
    ELSE [raised |-> NoException, warned |-> {}]

\* Mutant: the title is not set.
SetIdentity_NoTitle(s, loaded_hash, loaded_title) ==
    [s EXCEPT !._df_hash = loaded_hash]

\* Mutant: a null loaded value does not replace the hash or the title.
SetIdentity_KeepsNonNull(s, loaded_hash, loaded_title) ==
    [s EXCEPT !._df_hash = IF loaded_hash = None THEN @ ELSE loaded_hash,
              !._title = IF loaded_title = None THEN @ ELSE loaded_title]

SetIdentity(s, loaded_hash, loaded_title) ==
    [s EXCEPT !._df_hash = loaded_hash, !._title = loaded_title]

\* A raise: the report as it is, the config as the decoding left it.
Raise(s, cfg, e, n) ==
    [self |-> s, config |-> cfg, raised |-> e, warned |-> {}, updates |-> n]

\* The body of loads: the report, the config, the exception and the warnings
\* it ends with.
loads_body(s, cfg, data) ==
    LET u == Unpack5(cfg, data)
    IN  IF u.raised # NoException THEN Raise(s, u.config, u.raised, u.updates)
        ELSE IF ~ShapeOK(u.v) THEN Raise(s, u.config, IncompatibleFormatError, u.updates)
        ELSE IF ~Compatible(u.v[1], s, u.config)
        THEN Raise(s, u.config, DatasetMismatchError, u.updates)
        ELSE
            LET d == MergeDescriptionSet(s, u.v[3])
                r == MergeReport(d.self, u.v[4])
                c == update(u.config, u.v[2])
                k == VersionCheck(u.v[3])
            IN  IF k.raised # NoException
                THEN [self |-> r.self, config |-> c, raised |-> k.raised,
                      warned |-> d.warned \cup r.warned, updates |-> u.updates + 1]
                ELSE [self |-> SetIdentity(r.self, u.v[1], u.v[5]), config |-> c,
                      raised |-> NoException,
                      warned |-> d.warned \cup r.warned \cup k.warned,
                      updates |-> u.updates + 1]

\* Mutant: ignore_config skips the config merge.
loads_SkipsConfigMerge(s, cfg, data, ignore_config) ==
    IF ignore_config
    THEN [loads_body(s, cfg, data) EXCEPT !.config = Unpack5(cfg, data).config,
                                          !.updates = Unpack5(cfg, data).updates]
    ELSE loads_body(s, cfg, data)

\* loads(data, ignore_config): ignore_config is accepted and never read.
loads(s, cfg, data, ignore_config) == loads_body(s, cfg, data)

(***************************************************************************)
(* The inputs of the model.                                                *)
(***************************************************************************)
TargetHashes == {None, Str(<<"a", "b", "c">>), Str(<<"x", "y", "z">>)}

LoadedHashes == {None, Str(<<"a", "b", "c">>)}

Configs == {DefaultConfig, CustomConfig}

DescriptionSets == {DescriptionSet(__version__), DescriptionSet("2.8.0")}

Reports == {RootObj("report")}

Titles == {Str(<<"t", "i", "t", "l", "e">>)}

\* Snapshots whose five fields have the expected shapes: a report with a
\* description set or without, with a report tree and a title or without
\* both; and snapshots whose description set is the empty dict.
ValidSnapshots ==
    {<<h, c, d, rt[1], rt[2]>> :
        h \in LoadedHashes, c \in Configs, d \in {None} \cup DescriptionSets,
        rt \in {<<None, None>>} \cup (Reports \X Titles)}
    \cup {<<h, c, EmptyDict, None, None>> : h \in LoadedHashes, c \in Configs}

\* Snapshots of five fields, one of them of the wrong shape.
BadShapeSnapshots ==
    {<<Int("42"), DefaultConfig, None, None, None>>}
    \cup {<<h, DefaultConfig, None, None, Int("7")>> : h \in LoadedHashes}
    \cup {<<h, None, None, None, None>> : h \in LoadedHashes}
    \cup {<<h, DefaultConfig, List(<<>>), None, None>> : h \in LoadedHashes}
    \cup {<<h, DefaultConfig, None, Str(<<"r", "e", "p", "o", "r", "t">>), None>> : h \in LoadedHashes}

\* Bytes that do not decode into five values: random bytes, a truncated
\* pickle, no bytes, lists of four and of six values, an int, a str of three
\* characters, a dict.
CorruptInputs ==
    { StaleBytes,
      <<>>,
      SubSeq(pickle_dumps(<<None, DefaultConfig, None, None, None>>), 1, 6),
      pickle_dumps(<<None, DefaultConfig, None, None>>),
      pickle_dumps(<<None, DefaultConfig, None, None, None, None>>),
      pickle_dumps_object(Int("42")),
      pickle_dumps_object(Str(<<"a", "b", "c">>)),
      pickle_dumps_object(DescriptionSet(__version__)) }

\* Bytes that dumps did not write and that decode into five values: a str of
\* five characters, a tuple, a pickle of protocol 0 (no PROTO), a pickle
\* followed by other bytes.
ForeignInputs ==
    { pickle_dumps_object(Str(<<"t", "i", "t", "l", "e">>)),
      <<Opcode("PROTO"), Opcode("MARK"), Str(<<"a", "b", "c">>), CustomConfig, None, None,
        None, Opcode("TUPLE"), Opcode("STOP")>>,
      Tail(pickle_dumps(<<Str(<<"a", "b", "c">>), DefaultConfig, None, None, None>>)),
      pickle_dumps(<<None, CustomConfig, None, None, Str(<<"t", "i", "t", "l", "e">>)>>)
          \o StaleBytes }

\* The opcodes that call config.update(c) while they are decoded.
CallsUpdate(c) ==
    <<Opcode("GLOBAL config update"), c, Opcode("TUPLE1"), Opcode("REDUCE")>>

\* Forged pickles: one that calls sys.exit(), ones that call config.update,
\* and ones that call config.update and then build a snapshot.
ForgedInputs ==
    { <<Opcode("PROTO"), Opcode("GLOBAL sys exit"), Opcode("EMPTY_TUPLE"),
        Opcode("REDUCE"), Opcode("STOP")>> }
    \cup { <<Opcode("PROTO")>> \o CallsUpdate(c) \o <<Opcode("STOP")>> : c \in Configs }
    \cup { <<Opcode("PROTO")>> \o CallsUpdate(c)
               \o Tail(pickle_dumps(<<Str(<<"a", "b", "c">>), CustomConfig, None, None, None>>))
           : c \in Configs }

LoadInputs ==
    {pickle_dumps(v) : v \in ValidSnapshots \cup BadShapeSnapshots}
    \cup CorruptInputs \cup ForeignInputs \cup ForgedInputs

(***************************************************************************)
(* The in-memory specification: a report object, dumps and loads calls.    *)
(***************************************************************************)
Now == [self |-> Self, config |-> config, fs |-> fs]

\* Construction: the class attributes; a subclass binds df and df_hash.
Init ==
    /\ df_hash \in TargetHashes
    /\ df \in {None, DataFrame("df")}
    /\ _df_hash = None
    /\ _report = None
    /\ _description_set = None
    /\ _title = None
    /\ config \in Configs
    /\ fs = NoFiles
    /\ op = "new"
    /\ arg_data = <<>>
    /\ arg_ignore = FALSE
    /\ arg_path = <<>>
    /\ ret = <<>>
    /\ raised = NoException
    /\ warned = {}
    /\ updates = 0
    /\ pre = Now
    /\ saved = <<>>
    /\ calls = 0

\* The effect of a loads call on the report, the config and the call record.
ApplyLoads(res) ==
    /\ df_hash' = res.self.df_hash
    /\ df' = res.self.df
    /\ _df_hash' = res.self._df_hash
    /\ _report' = res.self._report
    /\ _description_set' = res.self._description_set
    /\ _title' = res.self._title
    /\ config' = res.config
    /\ raised' = res.raised
    /\ warned' = res.warned
    /\ updates' = res.updates

Loads(data, ignore_config) ==
    /\ calls < MaxCalls
    /\ ApplyLoads(loads(Self, config, data, ignore_config))
    /\ op' = "loads"
    /\ arg_data' = data
    /\ arg_ignore' = ignore_config
    /\ ret' = <<>>
    /\ pre' = Now
    /\ calls' = calls + 1
    /\ UNCHANGED <<fs, arg_path, saved>>

\* A dumps call, but for what becomes of saved.
DumpsCall ==
    /\ ret' = dumps(Self, config)
    /\ op' = "dumps"
    /\ arg_data' = <<>>
    /\ arg_ignore' = FALSE
    /\ raised' = NoException
    /\ warned' = {}
    /\ updates' = 0
    /\ pre' = Now
    /\ UNCHANGED <<df_hash, df, _df_hash, _report, _description_set, _title, config,
                   fs, arg_path, calls>>

Dumps == DumpsCall /\ UNCHANGED saved

Next ==
    \/ Dumps
    \/ \E data \in LoadInputs, ignore_config \in BOOLEAN : Loads(data, ignore_config)

Spec == Init /\ [][Next]_vars

(***************************************************************************)
(* The round-trip specification: a source report is serialized, and the    *)
(* bytes are loaded into a freshly constructed report under the default    *)
(* config.                                                                 *)
(***************************************************************************)
InitRoundTrip ==
    /\ df_hash \in TargetHashes
    /\ df \in {None, DataFrame("df")}
    /\ _df_hash \in {None, df_hash}
    /\ _report \in {None} \cup Reports
    /\ _description_set \in {None} \cup DescriptionSets
    /\ _title \in {None} \cup Titles
    /\ config \in Configs
    /\ fs = NoFiles
    /\ op = "new"
    /\ arg_data = <<>>
    /\ arg_ignore = FALSE
    /\ arg_path = <<>>
    /\ ret = <<>>
    /\ raised = NoException
    /\ warned = {}
    /\ updates = 0
    /\ pre = Now
    /\ saved = <<>>
    /\ calls = 0

\* The source's dumps; saved keeps the five values of the source.
DumpsSource ==
    /\ op = "new"
    /\ ret = <<>>
    /\ DumpsCall
    /\ saved' = <<df_hash, config, _description_set, _report, _title>>

\* A report is constructed to load into: the class attributes, no df bound.
\* The process-wide config, the source's bytes and the files stay.
NewTarget ==
    /\ op \in {"dumps", "dump"}
    /\ df_hash' = ClassDefaults.df_hash
    /\ df' = ClassDefaults.df
    /\ _df_hash' = ClassDefaults._df_hash
    /\ _report' = ClassDefaults._report
    /\ _description_set' = ClassDefaults._description_set
    /\ _title' = ClassDefaults._title
    /\ op' = "fresh"
    /\ pre' = [self |-> ClassDefaults, config |-> config, fs |-> fs]
    /\ UNCHANGED <<config, fs, arg_data, arg_ignore, arg_path, ret, raised, warned, updates,
                   saved, calls>>

LoadsDumped(ignore_config) ==
    /\ op = "fresh"
    /\ Loads(ret, ignore_config)

NextRoundTrip ==
    \/ DumpsSource
    \/ NewTarget
    \/ \E ignore_config \in BOOLEAN : LoadsDumped(ignore_config)

SpecRoundTrip == InitRoundTrip /\ [][NextRoundTrip]_vars

(***************************************************************************)
(* Paths.  A file name is a sequence of chunks of text; the chunk "." is a *)
(* dot, the other chunks hold no dot.  All files are in one directory.     *)
(***************************************************************************)
Chunks == {"r", "j", "pp", "."}

Paths == UNION {[1..n -> Chunks] : n \in 0..MaxNameLen}

\* The suffix dump forces.
PP == <<".", "pp">>

\* Path(str(p)).name: "" and "." name the directory itself.
PathName(p) == IF p = <<".">> THEN <<>> ELSE p

\* PurePath.suffix: from the last dot on, when that dot is neither the first
\* nor the last character of the name.
suffix(name) ==
    LET dots == {i \in 1..Len(name) : name[i] = "."}
        last == CHOOSE i \in dots : \A j \in dots : j <= i
    IN  IF dots # {} /\ 1 < last /\ last < Len(name)
        THEN SubSeq(name, last, Len(name))
        ELSE <<>>

\* Mutant: the suffix is appended to the name as it is.
with_suffix_Appends(name, sfx) == name \o sfx

\* PurePath.with_suffix on a non-empty name.
with_suffix(name, sfx) ==
    IF suffix(name) = <<>>
    THEN name \o sfx
    ELSE SubSeq(name, 1, Len(name) - Len(suffix(name))) \o sfx

\* The paths that name a directory: "" (which Path turns into "."), "." and
\* "..".
IsDirectory(p) == p \in {<<>>, <<".">>, <<".", ".">>}

EmptyNameError == "ValueError: PosixPath('.') has an empty name"

FileNotFoundError == "FileNotFoundError: No such file or directory"

IsADirectoryError == "IsADirectoryError: Is a directory"

\* Path.write_bytes: the file is created or replaced.
write_bytes(files, name, data) ==
    [n \in (DOMAIN files) \cup {name} |-> IF n = name THEN data ELSE files[n]]

(***************************************************************************)
(* The file specification: a report object, dump and load calls.           *)
(***************************************************************************)
\* The source report, in a directory that holds the files r, r.j and r.pp of
\* an earlier program.
InitFile ==
    /\ df_hash = Str(<<"a", "b", "c">>)
    /\ df = DataFrame("df")
    /\ _df_hash = None
    /\ _report = RootObj("report")
    /\ _description_set = DescriptionSet(__version__)
    /\ _title = Str(<<"t", "i", "t", "l", "e">>)
    /\ config \in Configs
    /\ fs = [n \in {<<"r">>, <<"r", ".", "j">>, <<"r", ".", "pp">>} |-> StaleBytes]
    /\ op = "new"
    /\ arg_data = <<>>
    /\ arg_ignore = FALSE
    /\ arg_path = <<>>
    /\ ret = <<>>
    /\ raised = NoException
    /\ warned = {}
    /\ updates = 0
    /\ pre = Now
    /\ saved = <<>>
    /\ calls = 0

Dump(output_file) ==
    /\ calls < MaxCalls
    /\ op = "new"
    /\ IF PathName(output_file) = <<>>
       THEN /\ raised' = EmptyNameError
            /\ fs' = fs
            /\ saved' = saved
       ELSE /\ raised' = NoException
            /\ fs' = write_bytes(fs, with_suffix(PathName(output_file), PP),
                                 dumps(Self, config))
            /\ saved' = <<df_hash, config, _description_set, _report, _title,
                          output_file>>
    /\ op' = "dump"
    /\ arg_path' = output_file
    /\ arg_data' = <<>>
    /\ arg_ignore' = FALSE
    /\ ret' = <<>>
    /\ warned' = {}
    /\ updates' = 0
    /\ pre' = Now
    /\ calls' = calls + 1
    /\ UNCHANGED <<df_hash, df, _df_hash, _report, _description_set, _title, config>>

\* load reads the file of the path as given and hands its bytes to loads.
Load(load_file, ignore_config) ==
    /\ calls < MaxCalls
    /\ op = "fresh"
    /\ IF IsDirectory(load_file)
       THEN /\ raised' = IsADirectoryError
            /\ arg_data' = <<>>
            /\ warned' = {}
            /\ updates' = 0
            /\ UNCHANGED <<df_hash, df, _df_hash, _report, _description_set, _title,
                           config>>
       ELSE IF load_file \notin DOMAIN fs
       THEN /\ raised' = FileNotFoundError
            /\ arg_data' = <<>>
            /\ warned' = {}
            /\ updates' = 0
            /\ UNCHANGED <<df_hash, df, _df_hash, _report, _description_set, _title,
                           config>>
       ELSE /\ arg_data' = fs[load_file]
            /\ ApplyLoads(loads(Self, config, fs[load_file], ignore_config))
    /\ op' = "load"
    /\ arg_path' = load_file
    /\ arg_ignore' = ignore_config
    /\ ret' = <<>>
    /\ pre' = Now
    /\ calls' = calls + 1
    /\ UNCHANGED <<fs, saved>>

NextFile ==
    \/ \E output_file \in Paths : Dump(output_file)
    \/ NewTarget
    \/ \E load_file \in Paths, ignore_config \in BOOLEAN : Load(load_file, ignore_config)

SpecFile == InitFile /\ [][NextFile]_vars

(***************************************************************************)
(* What a claim says of the last call: the call was a loads, what its data *)
(* decoded to, and what the report and the config were before it.          *)
(***************************************************************************)
WasLoads == op = "loads"

\* The try block of the call.
Decoding == Unpack5(pre.config, arg_data)

Decoded == Decoding.raised = NoException

Loaded == Decoding.v

Validated == Decoded /\ ShapeOK(Loaded)

\* The target before the call was one to load into: default config, no df.
WasDefaultTarget == is_default(pre.config) /\ pre.self.df = None

HashMatched == Loaded[1] = pre.self.df_hash

\* The compatibility decision, on the config that is active when loads takes
\* it.
PassedGate == HashMatched \/ (is_default(Decoding.config) /\ pre.self.df = None)

Untouched == Self = pre.self /\ config = pre.config

\* The bytes dumps writes for a report: a hash, a config, a description set
\* with its version marker or none, a report or none, a title or none.
DumpsOutputs ==
    {pickle_dumps(<<h, c, d, r, t>>) :
        h \in TargetHashes, c \in Configs, d \in {None} \cup DescriptionSets,
        r \in {None} \cup Reports, t \in {None} \cup Titles}

NotFromDumps == arg_data \notin DumpsOutputs

\* The call went past the compatibility decision, into the merge.
Merged == raised \in {NoException, KeyErrorPackage}

----------------------------------------------------------------------------
\* C1: when a decoded snapshot of valid shapes carries a dataframe_hash
\* that differs from the target's df_hash and the target is not (default
\* config, no df), loads raises the dataset-mismatch error and leaves the
\* report and the config as they were before the call.
C1_IdentityGate ==
    (WasLoads /\ Validated /\ ~HashMatched /\ ~WasDefaultTarget)
        => (raised = DatasetMismatchError /\ Untouched)

\* C2: loads(dumps()) into a freshly constructed target (all fields null,
\* default config, no df) returns, and leaves the target's _df_hash, _title,
\* _description_set and _report equal to the source's dataframe hash, title,
\* description set and report.
C2_RoundTrip ==
    (WasLoads /\ saved # <<>> /\ pre.self = ClassDefaults /\ is_default(pre.config)) =>
        /\ raised = NoException
        /\ _df_hash = saved[1]
        /\ _title = saved[5]
        /\ _description_set = saved[3]
        /\ _report = saved[4]

C2_Witness ==
    /\ WasLoads /\ saved # <<>>
    /\ pre.self = ClassDefaults /\ pre.config = DefaultConfig
    /\ saved[1] = Str(<<"x", "y", "z">>) /\ saved[2] = DefaultConfig
    /\ saved[3] # None /\ saved[4] # None /\ saved[5] # None
    /\ _df_hash = Str(<<"x", "y", "z">>) /\ _description_set = saved[3]

\* C3: into a target with default config and no df, loads of any snapshot
\* that passes structural validation returns without raising.
C3_DefaultTargetBypass ==
    (WasLoads /\ Validated /\ WasDefaultTarget) => raised = NoException

\* C4: on bytes that dumps did not produce, loads raises nothing but the decode and shape errors (and the dataset
\* mismatch of the gate), and whenever it raises, neither the report nor the
\* config has been written.
C4_FailureAtomicity ==
    (WasLoads /\ NotFromDumps) =>
        /\ raised \in {NoException, DeserializationError, IncompatibleFormatError,
                       DatasetMismatchError}
        /\ (raised # NoException => Untouched)

\* C5: a loads call never changes a _description_set that was non-null, and
\* every call that goes into the merge while it is non-null emits the
\* description-set warning; the same for _report and its warning.
C5_ExistingWins ==
    WasLoads =>
        /\ (pre.self._description_set # None =>
                /\ _description_set = pre.self._description_set
                /\ (Merged => DescriptionSetWarning \in warned))
        /\ (pre.self._report # None =>
                /\ _report = pre.self._report
                /\ (Merged => ReportWarning \in warned))

C5_Witness ==
    /\ WasLoads /\ Validated /\ Merged
    /\ pre.self._description_set # None /\ pre.self._report # None
    /\ Loaded[3] # pre.self._description_set /\ Loaded[3] # None
    /\ Loaded[4] # pre.self._report
    /\ warned = {DescriptionSetWarning, ReportWarning, VersionWarning}

\* C6: for every snapshot that passes structural validation and the
\* compatibility decision, loads reaches the identity update and returns.
C6_VersionAdvisoryNeverBlocks ==
    (WasLoads /\ Validated /\ PassedGate)
        => /\ raised = NoException
           /\ _df_hash = Loaded[1]
           /\ _title = Loaded[5]

\* C7: the call with the other value of ignore_config, from the same report,
\* config and bytes, ends with the same exception, report, config and
\* warnings.
C7_IgnoreConfigNoEffect ==
    WasLoads =>
        [self |-> Self, config |-> config, raised |-> raised, warned |-> warned,
         updates |-> updates]
            = loads(pre.self, pre.config, arg_data, ~arg_ignore)

C7_Witness ==
    /\ WasLoads /\ arg_ignore /\ Validated
    /\ raised = NoException
    /\ pre.config = DefaultConfig /\ Loaded[2] = CustomConfig
    /\ config = CustomConfig

\* C8: dumps writes no field and no config setting, and its bytes decode to
\* exactly (df_hash, config, _description_set, _report, _title), in that
\* order.
C8_DumpsReadOnlyPositional ==
    op = "dumps" =>
        /\ Untouched
        /\ Unpack5(config, ret).raised = NoException
        /\ Unpack5(config, ret).v[1] = df_hash
        /\ Unpack5(config, ret).v[2] = config
        /\ Unpack5(config, ret).v[3] = _description_set
        /\ Unpack5(config, ret).v[4] = _report
        /\ Unpack5(config, ret).v[5] = _title

C8_Witness ==
    /\ op = "dumps"
    /\ df_hash = Str(<<"x", "y", "z">>) /\ _df_hash = Str(<<"a", "b", "c">>)
    /\ config = CustomConfig
    /\ _description_set # None /\ _report # None /\ _title # None

\* The name a coercion to ".pp" gives: the name up to its last dot when text
\* follows that dot and precedes it, the whole name otherwise, then ".pp".
Stems(name) ==
    {k \in 1..(Len(name) - 2) :
        /\ name[k + 1] = "."
        /\ \A j \in (k + 2)..Len(name) : name[j] # "."}

Coerced(name) ==
    IF Stems(name) = {}
    THEN name \o PP
    ELSE SubSeq(name, 1, CHOOSE k \in Stems(name) : TRUE) \o PP

\* C9: dump(path), for a path that names a file, writes the snapshot to the
\* path with its final suffix replaced by ".pp" (appended when it has none),
\* and writes no other file: not the caller's name when that differs.
C9_ExtensionCoercion ==
    (op = "dump" /\ PathName(arg_path) # <<>>) =>
        /\ raised = NoException
        /\ DOMAIN fs = (DOMAIN pre.fs) \cup {Coerced(arg_path)}
        /\ fs[Coerced(arg_path)] = dumps(Self, config)
        /\ \A n \in (DOMAIN pre.fs) \ {Coerced(arg_path)} : fs[n] = pre.fs[n]
        /\ (arg_path = <<"r">> => Coerced(arg_path) = <<"r", ".", "pp">>)
        /\ (arg_path = <<"r", ".", "j">> => Coerced(arg_path) = <<"r", ".", "pp">>)

\* dump("r.j") wrote r.pp over the one that was there, and left r.j as it
\* was.
C9_Witness ==
    /\ op = "dump" /\ arg_path = <<"r", ".", "j">>
    /\ <<"r", ".", "pp">> \in DOMAIN pre.fs
    /\ pre.fs[<<"r", ".", "pp">>] = StaleBytes
    /\ DOMAIN fs = {<<"r">>, <<"r", ".", "j">>, <<"r", ".", "pp">>}
    /\ fs[<<"r", ".", "j">>] = StaleBytes
    /\ fs[<<"r", ".", "pp">>] = dumps(Self, config)

\* C10: for a snapshot that passes structural validation, loads goes into
\* the merge exactly when the loaded hash equals the target's df_hash (both
\* null included) or the config active at the decision is default and the
\* target has no df; otherwise it raises the dataset mismatch.
C10_CompatibilityExact ==
    (WasLoads /\ Validated) =>
        /\ Merged <=> PassedGate
        /\ ~Merged <=> raised = DatasetMismatchError

\* An equal hash suffices with a non-default config and a df bound.
C10_Witness ==
    /\ WasLoads /\ Validated
    /\ pre.config = CustomConfig /\ pre.self.df # None
    /\ Loaded[1] = Str(<<"a", "b", "c">>) /\ pre.self.df_hash = Str(<<"a", "b", "c">>)
    /\ raised = NoException /\ _df_hash = Str(<<"a", "b", "c">>)

\* C11: after every loads that returns, _df_hash and _title are the loaded
\* hash and title, also when the description set or the report was not
\* loaded, and also when the loaded value is null and the target's was not.
C11_IdentityUpdate ==
    (WasLoads /\ raised = NoException) =>
        /\ _df_hash = Loaded[1]
        /\ _title = Loaded[5]

C11_Witness ==
    /\ WasLoads /\ raised = NoException
    /\ pre.self._df_hash # None /\ pre.self._title # None
    /\ Loaded[1] = None /\ Loaded[5] = None
    /\ DescriptionSetWarning \in warned /\ ReportWarning \in warned
    /\ _df_hash = None /\ _title = None

\* C12: a loads that goes into the merge leaves _description_set at the
\* loaded value when it was null before the call and as it was otherwise,
\* with the warning exactly in the latter case; the same for _report, each
\* field by its own test.
C12_PerFieldMerge ==
    (WasLoads /\ Merged) =>
        /\ _description_set = IF pre.self._description_set = None
                              THEN Loaded[3] ELSE pre.self._description_set
        /\ (DescriptionSetWarning \in warned) <=> (pre.self._description_set # None)
        /\ _report = IF pre.self._report = None
                     THEN Loaded[4] ELSE pre.self._report
        /\ (ReportWarning \in warned) <=> (pre.self._report # None)

\* The target had a description set and no report: it keeps the one, with
\* the warning, and adopts the other.
C12_Witness ==
    /\ WasLoads /\ raised = NoException
    /\ pre.self._description_set # None /\ pre.self._report = None
    /\ Loaded[3] # None /\ Loaded[3] # pre.self._description_set
    /\ Loaded[4] # None
    /\ _description_set = pre.self._description_set /\ _report = Loaded[4]
    /\ DescriptionSetWarning \in warned /\ ReportWarning \notin warned

\* C13: every loads that passes the compatibility decision applies
\* update(loaded_config) to the active config, and makes that one
\* config.update call; every loads that fails the decode, the shape
\* validation or the compatibility decision makes no config.update call and
\* leaves the config as it was.
C13_ConfigMerge ==
    WasLoads =>
        IF Validated /\ PassedGate
        THEN updates = 1 /\ config = Loaded[2]
        ELSE updates = 0 /\ config = pre.config

\* C14 (as stated): after a loads that went through the merge and returned,
\* when the target's description set is present, the version warning was
\* emitted exactly when its version marker differs from the running
\* version, also when the target kept its own description set.
C14_VersionAdvisory_Original ==
    (WasLoads /\ raised = NoException /\ HasVersionMarker(_description_set)) =>
        ((VersionWarning \in warned) <=> (VersionMarker(_description_set) # __version__))

\* C14 (amended): the version advisory is driven by the loaded description
\* set: a loads that goes into the merge emits the version warning exactly
\* when the snapshot's description set is present with a version marker
\* that differs from the running version, whatever description set the
\* target holds after the merge.
C14_VersionAdvisory ==
    (WasLoads /\ Merged) =>
        ((VersionWarning \in warned)
            <=> (HasVersionMarker(Loaded[3]) /\ VersionMarker(Loaded[3]) # __version__))

\* The target kept a description set of the running version; the snapshot's,
\* of another version, was skipped, and the warning was emitted.
C14_Witness ==
    /\ WasLoads /\ raised = NoException
    /\ pre.self._description_set = DescriptionSet(__version__)
    /\ _description_set = DescriptionSet(__version__)
    /\ Loaded[3] = DescriptionSet("2.8.0")
    /\ DescriptionSetWarning \in warned /\ VersionWarning \in warned

\* C15: bytes that do not decode into exactly five values always yield the
\* decode error; a decoded snapshot with a field of the wrong shape always
\* yields the incompatible-format error, whether or not its hash matches
\* the target and whether or not the target is a default empty one; the
\* dataset mismatch is raised only for a snapshot of valid shapes.
C15_CheckOrder ==
    WasLoads =>
        /\ (~Decoded => raised = DeserializationError)
        /\ ((Decoded /\ ~ShapeOK(Loaded)) => raised = IncompatibleFormatError)
        /\ (raised = DatasetMismatchError => Validated)

\* C16: after a loads of a snapshot with hash h that returned, (i) a loads
\* of the same bytes that follows at once returns too, and (ii) a dumps that
\* follows at once encodes h as its dataframe hash.
C16_LoadedIdentity ==
    [][(WasLoads /\ raised = NoException) =>
          /\ (op' = "loads" /\ calls' = calls + 1 /\ arg_data' = arg_data)
                => raised' = NoException
          /\ (op' = "dumps") => Unpack5(config', ret').v[1] = Loaded[1]]_vars

\* C17 (as stated): for any path p, load(p) into a fresh default target
\* after dump(p) on a source reads the bytes dump wrote and restores the
\* source's hash, title, description set and report.
C17_FileRoundTrip_Original ==
    (/\ op = "load" /\ saved # <<>> /\ arg_path = saved[6]
     /\ pre.self = ClassDefaults /\ is_default(pre.config)) =>
        /\ raised = NoException
        /\ arg_data = fs[Coerced(saved[6])]
        /\ _df_hash = saved[1]
        /\ _title = saved[5]
        /\ _description_set = saved[3]
        /\ _report = saved[4]

\* C17 (amended): the same for a path p that already ends in the suffix
\* ".pp", the one name dump(p) writes under; load reads p as given.
C17_FileRoundTrip ==
    (/\ op = "load" /\ saved # <<>> /\ arg_path = saved[6]
     /\ pre.self = ClassDefaults /\ is_default(pre.config)
     /\ Coerced(arg_path) = arg_path) =>
        /\ raised = NoException
        /\ arg_data = fs[Coerced(saved[6])]
        /\ _df_hash = saved[1]
        /\ _title = saved[5]
        /\ _description_set = saved[3]
        /\ _report = saved[4]

\* dump("r.pp") replaced a stale r.pp, and load("r.pp") restored the source.
C17_Witness ==
    /\ op = "load" /\ saved # <<>>
    /\ arg_path = <<"r", ".", "pp">> /\ saved[6] = <<"r", ".", "pp">>
    /\ pre.self = ClassDefaults /\ pre.config = DefaultConfig
    /\ arg_data # StaleBytes
    /\ raised = NoException
    /\ _df_hash = Str(<<"a", "b", "c">>) /\ _title = Str(<<"t", "i", "t", "l", "e">>)
    /\ _description_set # None /\ _report # None

====
